---- MODULE Spec2Model ----
(***************************************************************************)
(* Model of the metadata utilities of sarpy:                               *)
(*   sarpy/io/general/utils.py         validate_range, reverse_range,      *)
(*                                     parse_timestring, get_seconds,      *)
(*                                     parse_xml_from_string               *)
(*   sarpy/io/complex/naming/iceye.py  get_commercial_id                   *)
(* The routines are stateless.  The state of the model is one call: the    *)
(* routine and its arguments (op, args), whether it has run (pc) and what  *)
(* it produced (ret); chain remembers the range that a sequence of         *)
(* reverse_range calls started from.                                       *)
(***************************************************************************)
EXTENDS Integers, Sequences, FiniteSets, TLC

VARIABLES pc, op, args, ret, chain

vars == <<pc, op, args, ret, chain>>

(***************************************************************************)
(* Bounds of the model.                                                    *)
(***************************************************************************)
\* largest axis length; range entries are drawn from -(MaxSiz+1)..(MaxSiz+1)
MaxSiz == 4
\* how many times reverse_range is fed its own result
MaxChain == 2
\* small tick counts are the multiples of 750 from -MaxTick*750 to MaxTick*750
MaxTick == 2
\* longest timestamp string
MaxStr == 4
\* most namespace declarations in a document
MaxDecl == 3

Sizes == 0..MaxSiz
Entries == (0 - (MaxSiz + 1))..(MaxSiz + 1)

(***************************************************************************)
(* Outcomes of a call: a returned value, or a raised exception.            *)
(***************************************************************************)
Returned(v) == [raised |-> FALSE, exc |-> "", val |-> v]
Raised(e) == [raised |-> TRUE, exc |-> e, val |-> <<>>]

(***************************************************************************)
(* Range arguments: None, an integer, or a sequence of integers.           *)
(***************************************************************************)
NoneArg == [shape |-> "none", v |-> <<>>]
IntArg(k) == [shape |-> "int", v |-> <<k>>]
SeqArg(s) == [shape |-> "seq", v |-> s]

RangeArgs ==
    {NoneArg} \cup {IntArg(k) : k \in Entries}
        \cup {SeqArg(<<>>)}
        \cup {SeqArg(<<a>>) : a \in Entries}
        \cup {SeqArg(<<a, b>>) : a \in Entries, b \in Entries}
        \cup {SeqArg(<<a, b, c>>) : a \in Entries, b \in Entries, c \in Entries}

(***************************************************************************)
(* validate_range, utils.py lines 48-87.                                   *)
(***************************************************************************)
\* lines 48-60: which of start, stop, step the argument supplies
\* (a missing one is None, modelled as the empty sequence)
ExtractStart(arg) ==
    IF arg.shape = "seq" /\ Len(arg.v) = 3 THEN <<arg.v[1]>> ELSE <<>>

ExtractStop(arg) ==
    IF arg.shape = "seq" /\ Len(arg.v) = 3 THEN <<arg.v[2]>>
    ELSE IF arg.shape = "seq" /\ Len(arg.v) = 2 THEN <<arg.v[1]>>
    ELSE <<>>

ExtractStep(arg) ==
    IF arg.shape = "int" THEN <<arg.v[1]>>
    ELSE IF arg.shape = "seq" /\ Len(arg.v) = 1 THEN <<arg.v[1]>>
    ELSE IF arg.shape = "seq" /\ Len(arg.v) = 2 THEN <<arg.v[2]>>
    ELSE IF arg.shape = "seq" /\ Len(arg.v) = 3 THEN <<arg.v[3]>>
    ELSE <<>>

\* lines 61-63: the defaults for what is None
OrDefault(opt, dflt) == IF opt = <<>> THEN dflt ELSE opt[1]

\* line 65
StartOk(start, siz) == (0 - siz) < start /\ start < siz

\* line 69
StopOk(stop, siz) == (0 - siz) < stop /\ stop <= siz

\* line 73
StepOkZero(step, siz) ==
    (0 <= step /\ step < siz) \/ ((0 - siz) < step /\ step < 0)
StepOk(step, siz) ==
    (0 < step /\ step < siz) \/ ((0 - siz) < step /\ step < 0)

\* line 77: the condition under which the direction check raises
DirectionBadUpOnly(start, stop, step) == step > 0 /\ start > stop
DirectionBad(start, stop, step) ==
    (step < 0 /\ stop > start) \/ (step > 0 /\ start > stop)

\* lines 83-86
Reform(i, siz) == IF i < 0 THEN i + siz ELSE i

validate_range(arg, siz) ==
    LET start == OrDefault(ExtractStart(arg), 0)
        stop == OrDefault(ExtractStop(arg), siz)
        step == OrDefault(ExtractStep(arg), 1)
    IN  IF ~StartOk(start, siz) THEN Raised("ValueError")
        ELSE IF ~StopOk(stop, siz) THEN Raised("ValueError")
        ELSE IF ~StepOk(step, siz) THEN Raised("ValueError")
        ELSE IF DirectionBad(start, stop, step) THEN Raised("ValueError")
        ELSE Returned(<<Reform(start, siz), Reform(stop, siz), step>>)

(***************************************************************************)
(* reverse_range, utils.py lines 106-108.                                  *)
(***************************************************************************)
\* line 108
ReflectOffByOne(t, siz) == <<siz - t[1], siz - t[2], 0 - t[3]>>
Reflect(t, siz) == <<(siz - 1) - t[1], (siz - 1) - t[2], 0 - t[3]>>

reverse_range(arg, siz) ==
    LET r == validate_range(arg, siz)
    IN  IF r.raised THEN r ELSE Returned(Reflect(r.val, siz))

(***************************************************************************)
(* 64-bit integers.  numpy keeps a datetime64 as an int64 tick count and   *)
(* get_seconds subtracts int64 scalars, so the width matters.  An int64 is *)
(* modelled in two's complement as four 16-bit limbs, least significant    *)
(* first.                                                                  *)
(***************************************************************************)
LimbBase == 2^16
HalfBase == 2^15
Thousand == 10^3

Zero64 == <<0, 0, 0, 0>>
\* 2^63 as an unsigned value; as a signed value the least int64 (numpy's NaT)
Min64 == <<0, 0, 0, HalfBase>>
Max64 == <<LimbBase - 1, LimbBase - 1, LimbBase - 1, HalfBase - 1>>

\* a + b + c0 modulo 2^64
AddC(a, b, c0) ==
    LET s1 == a[1] + b[1] + c0
        s2 == a[2] + b[2] + (s1 \div LimbBase)
        s3 == a[3] + b[3] + (s2 \div LimbBase)
        s4 == a[4] + b[4] + (s3 \div LimbBase)
    IN  <<s1 % LimbBase, s2 % LimbBase, s3 % LimbBase, s4 % LimbBase>>

Not64(a) == [i \in 1..4 |-> (LimbBase - 1) - a[i]]
Add64(a, b) == AddC(a, b, 0)
Neg64(a) == AddC(Not64(a), Zero64, 1)
\* int64 subtraction as numpy's scalar arithmetic does it: the result wraps
Sub64(a, b) == AddC(a, Not64(b), 1)

\* n is a natural number below 2^31
FromNat(n) == <<n % LimbBase, (n \div LimbBase) % LimbBase, 0, 0>>
FromInt(n) == IF n >= 0 THEN FromNat(n) ELSE Neg64(FromNat(0 - n))
Pow2(k) == [i \in 1..4 |-> IF i = (k \div 16) + 1 THEN 2^(k % 16) ELSE 0]

IsNeg64(a) == a[4] >= HalfBase
\* the magnitude, as an unsigned value
Mag64(a) == IF IsNeg64(a) THEN Neg64(a) ELSE a

ULess(a, b) ==
    \/ a[4] < b[4]
    \/ a[4] = b[4] /\ a[3] < b[3]
    \/ a[4] = b[4] /\ a[3] = b[3] /\ a[2] < b[2]
    \/ a[4] = b[4] /\ a[3] = b[3] /\ a[2] = b[2] /\ a[1] < b[1]

SLess(a, b) ==
    IF IsNeg64(a) # IsNeg64(b) THEN IsNeg64(a) ELSE ULess(a, b)

\* unsigned a * 1000: the low 64 bits and what is carried out of them
UMul1000(a) ==
    LET p1 == a[1] * Thousand
        p2 == a[2] * Thousand + (p1 \div LimbBase)
        p3 == a[3] * Thousand + (p2 \div LimbBase)
        p4 == a[4] * Thousand + (p3 \div LimbBase)
    IN  [limbs |-> <<p1 % LimbBase, p2 % LimbBase, p3 % LimbBase,
                     p4 % LimbBase>>,
         carry |-> p4 \div LimbBase]

\* unsigned a \div 1000
UDiv1000(a) ==
    LET r3 == (a[4] % Thousand) * LimbBase + a[3]
        r2 == (r3 % Thousand) * LimbBase + a[2]
        r1 == (r2 % Thousand) * LimbBase + a[1]
    IN  <<r1 \div Thousand, r2 \div Thousand, r3 \div Thousand,
          a[4] \div Thousand>>

(***************************************************************************)
(* numpy.datetime64: a unit and a tick count.  astype to another unit      *)
(* multiplies the ticks by the ratio of the units (finer unit) or divides  *)
(* them by it rounding towards minus infinity (coarser unit).              *)
(***************************************************************************)
Units == <<"s", "ms", "us", "ns">>
UnitNames == {Units[i] : i \in 1..Len(Units)}
UnitIndex(u) == CHOOSE i \in 1..Len(Units) : Units[i] = u

Mul1000(x) ==
    IF IsNeg64(x) THEN Neg64(UMul1000(Mag64(x)).limbs)
    ELSE UMul1000(x).limbs

Mul1000Fits(x) ==
    UMul1000(Mag64(x)).carry = 0 /\ ULess(UMul1000(Mag64(x)).limbs, Min64)

FloorDiv1000(x) ==
    IF IsNeg64(x)
    THEN Neg64(UDiv1000(Add64(Mag64(x), FromNat(Thousand - 1))))
    ELSE UDiv1000(x)

RECURSIVE ScaleUp(_, _)
ScaleUp(x, k) == IF k = 0 THEN x ELSE ScaleUp(Mul1000(x), k - 1)

RECURSIVE ScaleUpFits(_, _)
ScaleUpFits(x, k) ==
    k = 0 \/ (Mul1000Fits(x) /\ ScaleUpFits(Mul1000(x), k - 1))

RECURSIVE ScaleDown(_, _)
ScaleDown(x, k) == IF k = 0 THEN x ELSE ScaleDown(FloorDiv1000(x), k - 1)

\* the division of a negative tick count first subtracts the divisor less one
ScaleDownFits(x, k) ==
    ~IsNeg64(x) \/ ~SLess(x, Add64(Min64, FromNat(Thousand^k - 1)))

\* whether dt.astype('datetime64[p]') stays within int64
CastFits(dt, p) ==
    IF UnitIndex(p) >= UnitIndex(dt.unit)
    THEN ScaleUpFits(dt.ticks, UnitIndex(p) - UnitIndex(dt.unit))
    ELSE ScaleDownFits(dt.ticks, UnitIndex(dt.unit) - UnitIndex(p))

astype(dt, p) ==
    [unit |-> p,
     ticks |-> IF UnitIndex(p) >= UnitIndex(dt.unit)
               THEN ScaleUp(dt.ticks, UnitIndex(p) - UnitIndex(dt.unit))
               ELSE ScaleDown(dt.ticks, UnitIndex(dt.unit) - UnitIndex(p))]

(***************************************************************************)
(* get_seconds, utils.py lines 134-148.  The float returned is modelled    *)
(* exactly, as sign, magnitude and decimal exponent: the value is          *)
(* (-1)^neg * mag * 10^(-exp).  The rounding of the product to a double is *)
(* left out; it is the same for a value and its negation.                  *)
(***************************************************************************)
\* lines 134-141: scale is 10^(-ScaleExp)
ScaleExp(precision) == 3 * (UnitIndex(precision) - 1)

\* line 148: float(int64 * scale)
ToFloat(d, e) == [neg |-> IsNeg64(d), mag |-> Mag64(d), exp |-> e]

FloatNeg(f) == IF f.mag = Zero64 THEN f ELSE [f EXCEPT !.neg = ~f.neg]
FloatZero(e) == [neg |-> FALSE, mag |-> Zero64, exp |-> e]

get_seconds(dt1, dt2, precision) ==
    IF precision \notin UnitNames THEN Raised("ValueError")
    ELSE LET tdt1 == astype(dt1, precision)
             tdt2 == astype(dt2, precision)
         IN  Returned(ToFloat(Sub64(tdt1.ticks, tdt2.ticks),
                              ScaleExp(precision)))

(***************************************************************************)
(* Strings are sequences of one-character strings.                         *)
(***************************************************************************)
UpperCase ==
    <<"A", "B", "C", "D", "E", "F", "G", "H", "I", "J", "K", "L", "M",
      "N", "O", "P", "Q", "R", "S", "T", "U", "V", "W", "X", "Y", "Z">>
LowerCase ==
    <<"a", "b", "c", "d", "e", "f", "g", "h", "i", "j", "k", "l", "m",
      "n", "o", "p", "q", "r", "s", "t", "u", "v", "w", "x", "y", "z">>
DigitChars == <<"0", "1", "2", "3", "4", "5", "6", "7", "8", "9">>
Whitespace == {" ", "\t", "\n"}

\* str.lower and str.upper
LowerChar(c) ==
    IF \E i \in 1..26 : UpperCase[i] = c
    THEN LowerCase[CHOOSE i \in 1..26 : UpperCase[i] = c]
    ELSE c
UpperChar(c) ==
    IF \E i \in 1..26 : LowerCase[i] = c
    THEN UpperCase[CHOOSE i \in 1..26 : LowerCase[i] = c]
    ELSE c
lower(str) == [i \in 1..Len(str) |-> LowerChar(str[i])]
upper(str) == [i \in 1..Len(str) |-> UpperChar(str[i])]

\* str.startswith
startswith(str, prefix) ==
    Len(str) >= Len(prefix) /\ SubSeq(str, 1, Len(prefix)) = prefix

\* str[-n:], for n > 0
LastChars(str, n) ==
    IF Len(str) <= n THEN str ELSE SubSeq(str, Len(str) - n + 1, Len(str))

\* str[:-1]
AllButLast(str) == IF str = <<>> THEN str ELSE SubSeq(str, 1, Len(str) - 1)

\* str.strip
RECURSIVE lstrip(_)
lstrip(str) ==
    IF str # <<>> /\ str[1] \in Whitespace THEN lstrip(Tail(str)) ELSE str

RECURSIVE rstrip(_)
rstrip(str) ==
    IF str # <<>> /\ str[Len(str)] \in Whitespace
    THEN rstrip(AllButLast(str))
    ELSE str

strip(str) == rstrip(lstrip(str))

\* the decimal digits of a natural number, and '{:0wd}'.format
RECURSIVE Decimal(_)
Decimal(n) ==
    IF n < 10 THEN <<DigitChars[n + 1]>>
    ELSE Decimal(n \div 10) \o <<DigitChars[(n % 10) + 1]>>

RECURSIVE ZeroPad(_, _)
ZeroPad(str, width) ==
    IF Len(str) >= width THEN str ELSE ZeroPad(<<"0">> \o str, width)

FormatZeroPadded(n, width) == ZeroPad(Decimal(n), width)

(***************************************************************************)
(* parse_timestring, utils.py lines 111-114.  numpy.datetime64(text, unit) *)
(* is the call of numpy's parser; what the model keeps of it is the text   *)
(* and the unit it is handed.                                              *)
(***************************************************************************)
datetime64(text, precision) == [text |-> text, unit |-> precision]

parse_timestring(str_in, precision) ==
    IF strip(str_in) = <<>> THEN Raised("IndexError")
    ELSE IF strip(str_in)[Len(strip(str_in))] = "Z"
         THEN Returned(datetime64(AllButLast(str_in), precision))
         ELSE Returned(datetime64(str_in, precision))

(***************************************************************************)
(* parse_xml_from_string, utils.py lines 164-174.  A document is its root  *)
(* tag and its namespace declarations, as (prefix, uri) pairs in document  *)
(* order: the 'start-ns' events of ElementTree.iterparse.                  *)
(***************************************************************************)
\* line 165
decode(xml_string) == [xml_string EXCEPT !.kind = "str"]

\* line 167
fromstring(xml_string) == xml_string.doc.root

\* line 169: dict(pairs); a later pair replaces an earlier one of the same key
RECURSIVE dict(_)
dict(pairs) ==
    IF pairs = <<>> THEN <<>>
    ELSE LET d == dict(AllButLast(pairs))
             last == pairs[Len(pairs)]
         IN  [k \in (DOMAIN d) \cup {last[1]} |->
                  IF k = last[1] THEN last[2] ELSE d[k]]

NoMapping == [none |-> TRUE, map |-> <<>>]
Mapping(d) == [none |-> FALSE, map |-> d]

\* lines 170-173
DefaultKeyMoved(xml_ns) ==
    IF DOMAIN xml_ns = {} THEN NoMapping
    ELSE IF "" \in DOMAIN xml_ns
         THEN Mapping([k \in ((DOMAIN xml_ns) \ {""}) \cup {"default"} |->
                          IF k = "default" THEN xml_ns[""] ELSE xml_ns[k]])
         ELSE Mapping(xml_ns)

DefaultKey(xml_ns) ==
    IF DOMAIN xml_ns = {} THEN NoMapping
    ELSE IF "" \in DOMAIN xml_ns
         THEN Mapping([k \in (DOMAIN xml_ns) \cup {"default"} |->
                          IF k = "default" THEN xml_ns[""] ELSE xml_ns[k]])
         ELSE Mapping(xml_ns)

parse_xml_from_string(xml_string) ==
    LET text == IF xml_string.kind = "bytes" THEN decode(xml_string)
                ELSE xml_string
    IN  Returned([root_node |-> fromstring(text),
                  xml_ns |-> DefaultKey(dict(text.doc.decls))])

(***************************************************************************)
(* get_commercial_id, iceye.py lines 26-33.                                *)
(***************************************************************************)
orbits_per_day == 15
\* the minutes of a day, line 31
DayMinutes == 1440

\* round(num / den) for naturals num and den > 0: to the nearest integer, a
\* tie to the even one
RoundDown(num, den) == num \div den
round(num, den) ==
    LET q == num \div den
        r == num % den
    IN  IF 2 * r < den THEN q
        ELSE IF 2 * r > den THEN q + 1
        ELSE IF q % 2 = 0 THEN q ELSE q + 1

iceye == <<"i", "c", "e", "y", "e">>
iceye_dash == <<"i", "c", "e", "y", "e", "-">>

NoneStr == [none |-> TRUE, str |-> <<>>]
Str(s) == [none |-> FALSE, str |-> s]

get_commercial_id(collector, cdate_str, cdate_mins, product_number) ==
    IF ~startswith(lower(collector), iceye) THEN Returned(NoneStr)
    ELSE LET crad == <<"N", "I">>
             cvehicle == IF startswith(lower(collector), iceye_dash)
                         THEN upper(LastChars(collector, 2))
                         ELSE <<"U", "N">>
             pass_number ==
                 FormatZeroPadded(round(cdate_mins * orbits_per_day,
                                        DayMinutes), 2)
         IN  Returned(Str(cdate_str \o crad \o cvehicle \o pass_number
                              \o FormatZeroPadded(product_number, 3)))

(***************************************************************************)
(* The state machine.                                                      *)
(***************************************************************************)
NoChain == [depth |-> 0, arg |-> NoneArg, norm |-> Returned(<<>>)]
NotYet == Returned(<<>>)

\* the calls made: every routine on every input of the bounded input sets
InitRange ==
    /\ op \in {"validate_range", "reverse_range"}
    /\ args \in [arg : RangeArgs, siz : Sizes]

\* tick counts: small ones either side of zero that are no multiples of
\* 1000, and the ends and the middle of the int64 range (NaT is no instant)
Ticks ==
    {FromInt(k * 750) : k \in (0 - MaxTick)..MaxTick}
        \cup {Pow2(62), Neg64(Pow2(62)), Max64, Add64(Min64, FromNat(1))}

Instants == [unit : UnitNames, ticks : Ticks]
Precisions == UnitNames \cup {"m"}

\* a cast whose product or dividend leaves int64 is computed by numpy with a
\* signed C operation that overflows; such calls are not drawn
InitSeconds ==
    /\ op = "get_seconds"
    /\ args \in [dt1 : Instants, dt2 : Instants, precision : Precisions]
    /\ args.precision \in UnitNames
           => CastFits(args.dt1, args.precision)
               /\ CastFits(args.dt2, args.precision)

\* timestamp strings: every string of at most MaxStr of these characters
TimeChars == {"1", "T", "Z", " "}
RECURSIVE StringsUpTo(_)
StringsUpTo(n) ==
    IF n = 0 THEN {<<>>}
    ELSE StringsUpTo(n - 1)
             \cup {Append(str, c) : str \in StringsUpTo(n - 1), c \in TimeChars}

InitTimestring ==
    /\ op = "parse_timestring"
    /\ args \in [str_in : StringsUpTo(MaxStr), precision : UnitNames]

\* documents: every sequence of at most MaxDecl declarations
Prefixes == {"", "default", "sicd"}
Uris == {"urn:a", "urn:b"}
RECURSIVE DeclsUpTo(_)
DeclsUpTo(n) ==
    IF n = 0 THEN {<<>>}
    ELSE DeclsUpTo(n - 1)
             \cup {Append(ds, <<px, uri>>) :
                       ds \in DeclsUpTo(n - 1), px \in Prefixes, uri \in Uris}

InitXml ==
    /\ op = "parse_xml_from_string"
    /\ args \in [xml_string :
                    [kind : {"str", "bytes"},
                     doc : [root : {"SICD"}, decls : DeclsUpTo(MaxDecl)]]]

Collectors ==
    {<<"I", "C", "E", "Y", "E", "-", "X", "2">>,
     <<"i", "c", "e", "y", "e", "-", "x", "2">>,
     <<"I", "c", "e", "y", "e", "-", "x", "7">>,
     <<"I", "C", "E", "Y", "E">>,
     <<"i", "c", "e", "y", "e", "X", "2">>,
     <<"I", "C", "E", "Y", "E", "-">>,
     <<"i", "c", "e", "y", "e", "-", "x">>,
     <<"O", "t", "h", "e", "r">>,
     <<"I", "C", "E">>,
     <<"x", "I", "C", "E", "Y", "E", "-", "X", "2">>,
     <<>>}
Dates == {<<"2", "0", "2", "1", "0", "1", "0", "1">>, <<>>}
\* every whole minute of a day; product numbers of one, two and three digits
Minutes == 0..DayMinutes
Products == {0, 5, 99, 100, 999}

InitCommercialId ==
    /\ op = "get_commercial_id"
    /\ args \in [collector : Collectors, cdate_str : Dates,
                  cdate_mins : Minutes, product_number : Products]

Init ==
    /\ pc = "call"
    /\ ret = NotYet
    /\ chain = NoChain
    /\ \/ InitRange
       \/ InitSeconds
       \/ InitTimestring
       \/ InitXml
       \/ InitCommercialId

ValidateRange ==
    /\ pc = "call"
    /\ op = "validate_range"
    /\ ret' = validate_range(args.arg, args.siz)
    /\ pc' = "done"
    /\ UNCHANGED <<op, args, chain>>

\* reverse_range on the argument of the call
ReverseRange ==
    /\ pc = "call"
    /\ op = "reverse_range"
    /\ ret' = reverse_range(args.arg, args.siz)
    /\ chain' = [depth |-> 1, arg |-> args.arg,
                  norm |-> validate_range(args.arg, args.siz)]
    /\ pc' = "done"
    /\ UNCHANGED <<op, args>>

\* reverse_range on the triple the previous reverse_range returned
ReverseRangeAgain ==
    /\ pc = "done"
    /\ op = "reverse_range"
    /\ ~ret.raised
    /\ chain.depth < MaxChain
    /\ args' = [arg |-> SeqArg(ret.val), siz |-> args.siz]
    /\ ret' = reverse_range(SeqArg(ret.val), args.siz)
    /\ chain' = [chain EXCEPT !.depth = @ + 1]
    /\ UNCHANGED <<op, pc>>

GetSeconds ==
    /\ pc = "call"
    /\ op = "get_seconds"
    /\ ret' = get_seconds(args.dt1, args.dt2, args.precision)
    /\ pc' = "done"
    /\ UNCHANGED <<op, args, chain>>

ParseTimestring ==
    /\ pc = "call"
    /\ op = "parse_timestring"
    /\ ret' = parse_timestring(args.str_in, args.precision)
    /\ pc' = "done"
    /\ UNCHANGED <<op, args, chain>>

ParseXmlFromString ==
    /\ pc = "call"
    /\ op = "parse_xml_from_string"
    /\ ret' = parse_xml_from_string(args.xml_string)
    /\ pc' = "done"
    /\ UNCHANGED <<op, args, chain>>

GetCommercialId ==
    /\ pc = "call"
    /\ op = "get_commercial_id"
    /\ ret' = get_commercial_id(args.collector, args.cdate_str,
                                args.cdate_mins, args.product_number)
    /\ pc' = "done"
    /\ UNCHANGED <<op, args, chain>>

Next ==
    \/ ValidateRange
    \/ ReverseRange
    \/ ReverseRangeAgain
    \/ GetSeconds
    \/ ParseTimestring
    \/ ParseXmlFromString
    \/ GetCommercialId

Spec == Init /\ [][Next]_vars

(***************************************************************************)
(* Properties of validate_range and reverse_range.                         *)
(***************************************************************************)
\* the indices a (start, stop, step) triple visits, in order: start,
\* start + step, ... strictly before stop, with no wraparound
RECURSIVE Traverse(_, _, _)
Traverse(i, stop, step) ==
    IF (step > 0 /\ i < stop) \/ (step < 0 /\ i > stop)
    THEN <<i>> \o Traverse(i + step, stop, step)
    ELSE <<>>

TraverseTriple(t) == Traverse(t[1], t[2], t[3])
IndexSet(t) == {TraverseTriple(t)[i] : i \in 1..Len(TraverseTriple(t))}

ValidateDone == pc = "done" /\ op = "validate_range"
ReverseDone == pc = "done" /\ op = "reverse_range"

\* C1: for every positive axis length N, N = 1 included, validate_range(None, N)
\* returns (0, N, 1) and does not raise.
C1_NoneGivesFullRange ==
    (ValidateDone /\ args.arg = NoneArg /\ args.siz >= 1)
        => ret = Returned(<<0, args.siz, 1>>)

IsIntStep(k, siz) == (0 < k /\ k < siz) \/ ((0 - siz) < k /\ k < 0)

\* C2 as stated: for every integer k with 0 < k < N or -N < k < 0,
\* validate_range(k, N) returns (0, N, k) and does not raise.
C2_IntegerStepReturned ==
    (ValidateDone /\ args.arg.shape = "int" /\ IsIntStep(args.arg.v[1], args.siz))
        => ret = Returned(<<0, args.siz, args.arg.v[1]>>)

\* C2 as amended: validate_range(k, N) returns (0, N, k) for 0 < k < N, and
\* raises ValueError for -N < k < 0.
C2_IntegerStepByDirection ==
    (ValidateDone /\ args.arg.shape = "int")
        => LET k == args.arg.v[1]
           IN  /\ (0 < k /\ k < args.siz) => ret = Returned(<<0, args.siz, k>>)
               /\ ((0 - args.siz) < k /\ k < 0) => ret = Raised("ValueError")

C2_Witness ==
    /\ ValidateDone
    /\ args.arg.shape = "int"
    /\ (0 - args.siz) < args.arg.v[1]
    /\ args.arg.v[1] < 0
    /\ ret.raised

\* C3: every triple (start, stop, step) validate_range returns has
\* start <= stop when step > 0 and start >= stop when step < 0.
C3_ReturnedDirectionConsistent ==
    (ValidateDone /\ ~ret.raised)
        => /\ ret.val[3] > 0 => ret.val[1] <= ret.val[2]
           /\ ret.val[3] < 0 => ret.val[1] >= ret.val[2]

\* C4: for a valid normalized (start, stop, step), reverse_range applied twice,
\* the second time to the result of the first, does not raise and returns a
\* range that visits the same set of indices as the original.
C4_ReverseTwiceEquivalent ==
    (ReverseDone /\ chain.depth = 2 /\ chain.arg.shape = "seq"
        /\ Len(chain.arg.v) = 3 /\ chain.norm = Returned(chain.arg.v))
        => /\ ~ret.raised
           /\ IndexSet(ret.val) = IndexSet(chain.arg.v)

\* C5: for every argument validate_range accepts with result (start, stop,
\* step), reverse_range returns (size-1-start, size-1-stop, -step), and the
\* indices that triple visits are, in order, the indices of the original
\* traversal each replaced by size-1-i.
C5_ReverseReflectsTraversal ==
    (ReverseDone /\ ~validate_range(args.arg, args.siz).raised)
        => LET n == validate_range(args.arg, args.siz).val
               t == TraverseTriple(n)
           IN  /\ ret = Returned(<<args.siz - 1 - n[1], args.siz - 1 - n[2],
                                   0 - n[3]>>)
               /\ TraverseTriple(ret.val)
                      = [i \in 1..Len(t) |-> args.siz - 1 - t[i]]

C5_Witness ==
    /\ ReverseDone
    /\ ~ret.raised
    /\ Len(TraverseTriple(ret.val)) >= 2
    /\ ret.val[3] < 0

\* C6: validate_range raises ValueError whenever the extracted step is 0 or
\* the extracted start or stop lies outside [-N, N], for every axis length N
\* and every shape of argument.
C6_RejectsZeroStepAndOutOfRange ==
    ValidateDone
        => LET start == OrDefault(ExtractStart(args.arg), 0)
               stop == OrDefault(ExtractStop(args.arg), args.siz)
               step == OrDefault(ExtractStep(args.arg), 1)
               N == args.siz
           IN  (\/ step = 0
                \/ start < 0 - N \/ start > N
                \/ stop < 0 - N \/ stop > N)
                   => ret = Raised("ValueError")

C6_Witness ==
    /\ ValidateDone
    /\ args.arg.shape = "seq"
    /\ Len(args.arg.v) = 3
    /\ args.arg.v[3] = 0
    /\ StartOk(args.arg.v[1], args.siz)
    /\ StopOk(args.arg.v[2], args.siz)
    /\ ret.raised

(***************************************************************************)
(* Properties of get_seconds.                                              *)
(***************************************************************************)
SecondsDone == pc = "done" /\ op = "get_seconds" /\ args.precision \in UnitNames

\* C7: for all instants t1, t2 and every precision p of s, ms, us, ns,
\* get_seconds(t1, t2, p) is the negation of get_seconds(t2, t1, p), and
\* get_seconds(t, t, 'us') is 0.
C7_SecondsAntisymmetric ==
    SecondsDone
        => /\ ~ret.raised
           /\ ret.val = FloatNeg(get_seconds(args.dt2, args.dt1,
                                             args.precision).val)
           /\ (args.dt1 = args.dt2 /\ args.precision = "us")
                  => ret.val = FloatZero(6)

(***************************************************************************)
(* Properties of parse_xml_from_string.                                    *)
(***************************************************************************)
XmlDone == pc = "done" /\ op = "parse_xml_from_string"

Decls == args.xml_string.doc.decls
Declared == {Decls[i][1] : i \in 1..Len(Decls)}
\* the URI of the last declaration of prefix px
LastUri(px) ==
    Decls[CHOOSE i \in 1..Len(Decls) :
              /\ Decls[i][1] = px
              /\ \A j \in (i + 1)..Len(Decls) : Decls[j][1] # px][2]

\* C8 as stated: no mapping exactly when no namespace is declared; otherwise
\* each declared prefix is sent to its URI, the empty prefix renamed to
\* "default": with a default namespace the mapping has "default" with that
\* URI and no entry under the empty prefix.
C8_EmptyPrefixRenamed ==
    XmlDone
        => /\ ~ret.raised
           /\ ret.val.xml_ns.none <=> Declared = {}
           /\ \A px \in Declared \ {""} :
                  /\ px \in DOMAIN ret.val.xml_ns.map
                  /\ ret.val.xml_ns.map[px] = LastUri(px)
           /\ "" \in Declared
                  => /\ "default" \in DOMAIN ret.val.xml_ns.map
                     /\ ret.val.xml_ns.map["default"] = LastUri("")
                     /\ "" \notin DOMAIN ret.val.xml_ns.map

\* C8 as amended: no mapping exactly when no namespace is declared; otherwise
\* the mapping sends each declared prefix, the empty one included, to the URI
\* of its last declaration, and with a default namespace it also has the key
\* "default" with that URI, in place of a declared prefix "default".
C8_EmptyPrefixCopied ==
    XmlDone
        => /\ ~ret.raised
           /\ ret.val.xml_ns.none <=> Declared = {}
           /\ DOMAIN ret.val.xml_ns.map
                  = Declared \cup (IF "" \in Declared THEN {"default"} ELSE {})
           /\ \A px \in Declared :
                  (px # "default" \/ "" \notin Declared)
                      => ret.val.xml_ns.map[px] = LastUri(px)
           /\ "" \in Declared => ret.val.xml_ns.map["default"] = LastUri("")

C8_Witness ==
    /\ XmlDone
    /\ "" \in Declared
    /\ "sicd" \in Declared
    /\ ~ret.val.xml_ns.none
    /\ "" \in DOMAIN ret.val.xml_ns.map
    /\ ret.val.xml_ns.map["default"] = "urn:b"

(***************************************************************************)
(* Properties of get_commercial_id.                                        *)
(***************************************************************************)
CommercialDone == pc = "done" /\ op = "get_commercial_id"

\* str starts with prefix (written in lower case), whatever the case
StartsIgnoringCase(str, prefix) ==
    /\ Len(str) >= Len(prefix)
    /\ \A i \in 1..Len(prefix) : str[i] \in {prefix[i], UpperChar(prefix[i])}

IsDigit(c) == \E d \in 1..10 : DigitChars[d] = c
DigitValue(c) == (CHOOSE d \in 1..10 : DigitChars[d] = c) - 1
RECURSIVE DigitsValue(_)
DigitsValue(str) ==
    IF str = <<>> THEN 0
    ELSE 10 * DigitsValue(SubSeq(str, 1, Len(str) - 1))
             + DigitValue(str[Len(str)])

Distance(a, b) == IF a >= b THEN a - b ELSE b - a
\* k is num / den rounded to the nearest integer, a tie to the even one
IsRounded(k, num, den) ==
    /\ 2 * Distance(k * den, num) <= den
    /\ 2 * Distance(k * den, num) = den => k % 2 = 0

\* C9: get_commercial_id returns None for a collector that does not start,
\* whatever the case, with 'iceye'; for one that starts with 'iceye-' it
\* returns the date string, 'NI', the upper-cased last two characters of the
\* collector, the pass number round(minutes * 15 / 1440) as two digits and
\* the product number as three digits.
C9_CommercialIdFormat ==
    CommercialDone
        => /\ ~ret.raised
           /\ ~StartsIgnoringCase(args.collector, iceye) => ret.val = NoneStr
           /\ StartsIgnoringCase(args.collector, iceye_dash)
                  => LET r == ret.val.str
                         n == Len(args.cdate_str)
                         c == args.collector
                     IN  /\ ~ret.val.none
                         /\ Len(r) = n + 9
                         /\ SubSeq(r, 1, n) = args.cdate_str
                         /\ SubSeq(r, n + 1, n + 2) = <<"N", "I">>
                         /\ SubSeq(r, n + 3, n + 4)
                                = <<UpperChar(c[Len(c) - 1]), UpperChar(c[Len(c)])>>
                         /\ \A i \in (n + 5)..(n + 9) : IsDigit(r[i])
                         /\ IsRounded(DigitsValue(SubSeq(r, n + 5, n + 6)),
                                      args.cdate_mins * 15, 1440)
                         /\ DigitsValue(SubSeq(r, n + 7, n + 9))
                                = args.product_number

C9_Witness ==
    /\ CommercialDone
    /\ args.collector = <<"I", "C", "E", "Y", "E", "-", "X", "2">>
    /\ args.cdate_mins = 720
    /\ args.product_number = 5
    /\ ret.val = Str(<<"2", "0", "2", "1", "0", "1", "0", "1", "N", "I",
                       "X", "2", "0", "8", "0", "0", "5">>)

(***************************************************************************)
(* Properties of parse_timestring.                                         *)
(***************************************************************************)
TimestringDone == pc = "done" /\ op = "parse_timestring"

\* position i of str holds its last character that is not whitespace
IsLastVisible(str, i) ==
    /\ str[i] \notin Whitespace
    /\ \A j \in (i + 1)..Len(str) : str[j] \in Whitespace
EndsInZ(str) == \E i \in 1..Len(str) : IsLastVisible(str, i) /\ str[i] = "Z"
WithoutTrailingZ(str) ==
    LET i == CHOOSE k \in 1..Len(str) : IsLastVisible(str, k)
    IN  SubSeq(str, 1, i - 1) \o SubSeq(str, i + 1, Len(str))

\* C10 (stated for the inputs that hold a character other than whitespace):
\* for a non-empty input whose whitespace-stripped form ends in 'Z',
\* whitespace after the 'Z' or not, parse_timestring hands the parser the
\* text with that 'Z' removed; an input not ending in 'Z' is handed over
\* unchanged.
C10_TrailingZRemoved ==
    (TimestringDone /\ \E i \in 1..Len(args.str_in) :
                           IsLastVisible(args.str_in, i))
        => IF EndsInZ(args.str_in)
           THEN ret = Returned(datetime64(WithoutTrailingZ(args.str_in),
                                          args.precision))
           ELSE ret = Returned(datetime64(args.str_in, args.precision))

====
